---- MODULE Spec2Model ----
(***************************************************************************)
(* Model of the in-memory game-session engine (class GameEngine,           *)
(* src/gameEngine.js) for one game id: the game object held in             *)
(* this.activeGames, its entries in this.gameTimers / this.turnTimers, and *)
(* the purge callbacks scheduled by endGame.  Every method is an operator  *)
(* from engine state to engine state; an exception raised inside a method  *)
(* is carried in the field "thrown" and aborts the rest of the call chain, *)
(* keeping the assignments that were made before it.                       *)
(***************************************************************************)
EXTENDS Integers, Sequences, FiniteSets, TLC

\* ---- bounds -------------------------------------------------------------
NumPlayers == 3        \* player identifiers 1..NumPlayers
MaxTurns == 3          \* nextTurn is executed at most MaxTurns times per game
MaxData == 1           \* opaque gameData payloads 0..MaxData
MaxEndCalls == 2       \* endGame is executed at most MaxEndCalls times

PlayerIds == 1..NumPlayers
NoPlayer == 0          \* null (currentTurn: null, winner = null)
NoError == "none"

\* ---- state --------------------------------------------------------------
VARIABLES
    activeGames,   \* TRUE iff this.activeGames has the game id
    created,       \* TRUE once createGame has generated the id
    config,        \* game.config: [maxPlayers, minPlayers]
    maxPlayers,    \* game.maxPlayers
    status,        \* game.state.status
    players,       \* game.state.players, the ids in array order
    ready,         \* ids of the players whose ready flag is true
    currentTurn,   \* game.state.currentTurn
    turnOrder,     \* game.state.turnOrder
    gameData,      \* game.state.gameData
    endReason,     \* game.state.endReason ("none" = not set)
    winner,        \* game.state.winner
    gameTimers,    \* TRUE iff this.gameTimers has a live timer for the id
    turnTimers,    \* TRUE iff this.turnTimers has a live timer for the id
    purgeTimers,   \* number of pending purge callbacks (endGame's setTimeout)
    endCount,      \* number of executions of endGame's body
    turnCount      \* number of executions of nextTurn in the active phase

vars == <<activeGames, created, config, maxPlayers, status, players, ready,
          currentTurn, turnOrder, gameData, endReason, winner, gameTimers,
          turnTimers, purgeTimers, endCount, turnCount>>

\* ---- helpers ------------------------------------------------------------
Range(s) == {s[i] : i \in 1..Len(s)}

\* Array.prototype.indexOf: 0-based index of the first occurrence, or -1.
IndexOf(s, x) ==
    IF x \in Range(s)
    THEN (CHOOSE i \in 1..Len(s) : s[i] = x /\ \A j \in 1..(i-1) : s[j] # x) - 1
    ELSE -1

\* Removal that fills the hole with the last element.
Splice_MoveLast(s, index) ==
    IF index + 1 = Len(s) THEN SubSeq(s, 1, index)
    ELSE SubSeq([s EXCEPT ![index + 1] = s[Len(s)]], 1, Len(s) - 1)

\* Array.prototype.splice(index, 1) with a 0-based index.
Splice(s, index) == SubSeq(s, 1, index) \o SubSeq(s, index + 2, Len(s))

\* Swap that writes a[i] and leaves a[j] as it was.
Swap_Overwrite(s, i, j) == [s EXCEPT ![i+1] = s[j+1]]

\* [a[i], a[j]] = [a[j], a[i]] with 0-based i, j.
Swap(s, i, j) == [s EXCEPT ![i+1] = s[j+1], ![j+1] = s[i+1]]

\* The engine state the methods work on.
Engine ==
    [activeGames |-> activeGames, config |-> config, maxPlayers |-> maxPlayers,
     status |-> status, players |-> players, ready |-> ready,
     currentTurn |-> currentTurn, turnOrder |-> turnOrder,
     gameData |-> gameData, endReason |-> endReason, winner |-> winner,
     gameTimers |-> gameTimers, turnTimers |-> turnTimers,
     purgeTimers |-> purgeTimers, endCount |-> endCount,
     turnCount |-> turnCount, thrown |-> NoError,
     emitted |-> <<>>,      \* the events this.emit has sent during the call
     saved |-> 0,           \* the calls of saveGameState made during the call
     saveErrors |-> 0,      \* the failures saveGameState has caught and logged
     saveFails |-> FALSE]   \* whether GameState's save rejects (an input)

Throw(e, msg) == [e EXCEPT !.thrown = msg]

\* this.emit(type, payload): the payloads carry the game id (one game here)
\* and the fields below.
Emit(e, ev) == [e EXCEPT !.emitted = Append(@, ev)]

GameEndedEvent(reason, w) ==
    [type |-> "gameEnded", playerId |-> NoPlayer, reason |-> reason, winner |-> w]

TurnStartedEvent(p) ==
    [type |-> "turnStarted", playerId |-> p, reason |-> "none", winner |-> NoPlayer]

\* saveGameState that lets a failure of save() out.
SaveGameState_Rethrow(e) ==
    IF e.saveFails THEN Throw([e EXCEPT !.saved = @ + 1], "save failed")
    ELSE [e EXCEPT !.saved = @ + 1]

\* saveGameState is async and is not awaited; a rejection of save() (or a
\* failure to build the document) is caught inside it and logged.
SaveGameState(e) ==
    [e EXCEPT !.saved = @ + 1,
              !.saveErrors = IF e.saveFails THEN @ + 1 ELSE @]

\* ---- hooks (extension points) ------------------------------------------
\* The values Math.random() can make generateTurnOrder pick: rnd[i] is the j
\* drawn in the iteration with loop index i, 0 <= j <= i.
RandomChoices(n) ==
    {r \in [1..(n-1) -> 0..(n-1)] : \A i \in DOMAIN r : r[i] <= i}

\* What a game type's executeAction can return for an action of player p:
\* the game goes on, or p has won.
ExecResults(p) ==
    [gameData : 0..MaxData, gameEnded : {FALSE}, endReason : {"none"}, winner : {NoPlayer}]
    \cup [gameData : 0..MaxData, gameEnded : {TRUE}, endReason : {"victory"}, winner : {p}]

\* What a start can draw: initializeGameData's value and the Fisher-Yates
\* draws.
StartHooks(n) == [init : 0..MaxData, rnd : RandomChoices(n)]

\* The hooks of the base class: {} as initial data, no draw.
BaseStartHooks == CHOOSE h \in StartHooks(NumPlayers) : h.init = 0

\* The hooks of startGame are reached only by a call that gets past its
\* guards; e0 is the outcome of the call under the base hooks.
StartHooksAsked(e0) ==
    IF status = "waiting" /\ e0.status = "active"
    THEN StartHooks(Len(e0.players)) ELSE {BaseStartHooks}

\* What an action can meet: validateAction's verdict and executeAction's
\* result.
NoResult == [gameData |-> 0, gameEnded |-> FALSE, endReason |-> "none", winner |-> NoPlayer]

ActionHooks(p) ==
    {[valid |-> FALSE, result |-> NoResult]} \cup [valid : {TRUE}, result : ExecResults(p)]

\* The hooks of the base class: validateAction accepts everything and
\* executeAction hands game.state.gameData back with gameEnded false.
BaseActionHooks(e) ==
    [valid |-> TRUE,
     result |-> [gameData |-> e.gameData, gameEnded |-> FALSE,
                 endReason |-> "none", winner |-> NoPlayer]]

\* processAction reaches its hooks only past its guards.
ActionHooksAsked(e, p) ==
    IF e.activeGames /\ e.status = "active" /\ e.currentTurn = p THEN ActionHooks(p)
    ELSE {[valid |-> FALSE, result |-> NoResult]}

\* ---- timers -------------------------------------------------------------
ClearTurnTimer(e) == [e EXCEPT !.turnTimers = FALSE]

\* setTurnTimer clears the old timer and then evaluates game.turnTimeLimit as
\* the argument of setTimeout; no binding named game is in scope there, so the
\* evaluation raises a ReferenceError before setTimeout is called and before
\* this.turnTimers.set is reached.
SetTurnTimer(e) == Throw(ClearTurnTimer(e), "ReferenceError")

\* clearGameTimers that forgets the game-lifetime timer.
ClearGameTimers_TurnOnly(e) == ClearTurnTimer(e)

ClearGameTimers(e) == ClearTurnTimer([e EXCEPT !.gameTimers = FALSE])

SetGameTimeout(e) == [e EXCEPT !.gameTimers = TRUE]

\* ---- turns --------------------------------------------------------------
RECURSIVE Shuffle(_, _, _)
Shuffle(ids, i, rnd) ==
    IF i <= 0 THEN ids ELSE Shuffle(Swap(ids, i, rnd[i]), i - 1, rnd)

GenerateTurnOrder(ps, rnd) == Shuffle(ps, Len(ps) - 1, rnd)

StartTurn(e) ==
    IF ~e.activeGames THEN e
    ELSE IF e.currentTurn \notin Range(e.players) THEN e
    ELSE LET e1 == SetTurnTimer(e)
         IN IF e1.thrown # NoError THEN e1
            ELSE Emit(e1, TurnStartedEvent(e1.currentTurn))

\* nextTurn that steps two entries ahead.
NextTurn_SkipTwo(e) ==
    IF ~e.activeGames THEN e
    ELSE LET e1 == ClearTurnTimer(e)
             currentIndex == IndexOf(e1.turnOrder, e1.currentTurn)
             next == IF Len(e1.turnOrder) = 0 THEN NoPlayer
                     ELSE e1.turnOrder[((currentIndex + 2) % Len(e1.turnOrder)) + 1]
         IN StartTurn([e1 EXCEPT !.currentTurn = next, !.turnCount = @ + 1])

NextTurn(e) ==
    IF ~e.activeGames THEN e
    ELSE LET e1 == ClearTurnTimer(e)
             currentIndex == IndexOf(e1.turnOrder, e1.currentTurn)
             next == IF Len(e1.turnOrder) = 0 THEN NoPlayer
                     ELSE e1.turnOrder[((currentIndex + 1) % Len(e1.turnOrder)) + 1]
         IN StartTurn([e1 EXCEPT !.currentTurn = next, !.turnCount = @ + 1])

\* ---- lifecycle ----------------------------------------------------------
\* endGame that schedules no removal from this.activeGames.
EndGame_NoPurge(e, reason, w) ==
    IF ~e.activeGames THEN Throw(e, "Game not found")
    ELSE LET e1 == [e EXCEPT !.status = "ended", !.endReason = reason,
                             !.winner = w, !.endCount = @ + 1,
                             !.turnCount = 0]
             e2 == SaveGameState(ClearGameTimers(e1))
         IN Emit(e2, GameEndedEvent(reason, w))

EndGame(e, reason, w) ==
    IF ~e.activeGames THEN Throw(e, "Game not found")
    ELSE LET e1 == [e EXCEPT !.status = "ended", !.endReason = reason,
                             !.winner = w, !.endCount = @ + 1,
                             !.turnCount = 0]   \* the active phase is over
             e2 == SaveGameState(ClearGameTimers(e1))
         IN [Emit(e2, GameEndedEvent(reason, w)) EXCEPT !.purgeTimers = @ + 1]

\* startGame without the check of the waiting status.
StartGame_NoStatusCheck(e, h) ==
    IF ~e.activeGames THEN Throw(e, "Game not found")
    ELSE IF Len(e.players) < e.config.minPlayers
         THEN Throw(e, "Not enough players to start game")
    ELSE LET order == GenerateTurnOrder(e.players, h.rnd)
         IN StartTurn([e EXCEPT !.status = "active", !.turnOrder = order,
                                !.currentTurn = IF Len(order) = 0 THEN NoPlayer ELSE order[1],
                                !.gameData = h.init, !.turnCount = 0])

\* startGame that cancels the game-lifetime timer when the game starts.
StartGame_CancelsGameTimer(e, h) ==
    IF ~e.activeGames THEN Throw(e, "Game not found")
    ELSE IF e.status # "waiting" THEN Throw(e, "Game is not in waiting status")
    ELSE IF Len(e.players) < e.config.minPlayers
         THEN Throw(e, "Not enough players to start game")
    ELSE LET order == GenerateTurnOrder(e.players, h.rnd)
         IN StartTurn([e EXCEPT !.status = "active", !.turnOrder = order,
                                !.currentTurn = IF Len(order) = 0 THEN NoPlayer ELSE order[1],
                                !.gameData = h.init, !.turnCount = 0,
                                !.gameTimers = FALSE])

\* startGame without the check of the number of players.
StartGame_NoMinCheck(e, h) ==
    IF ~e.activeGames THEN Throw(e, "Game not found")
    ELSE IF e.status # "waiting" THEN Throw(e, "Game is not in waiting status")
    ELSE LET order == GenerateTurnOrder(e.players, h.rnd)
         IN StartTurn([e EXCEPT !.status = "active", !.turnOrder = order,
                                !.currentTurn = IF Len(order) = 0 THEN NoPlayer ELSE order[1],
                                !.gameData = h.init, !.turnCount = 0])

StartGame(e, h) ==
    IF ~e.activeGames THEN Throw(e, "Game not found")
    ELSE IF e.status # "waiting" THEN Throw(e, "Game is not in waiting status")
    ELSE IF Len(e.players) < e.config.minPlayers
         THEN Throw(e, "Not enough players to start game")
    ELSE LET order == GenerateTurnOrder(e.players, h.rnd)
         IN StartTurn([e EXCEPT !.status = "active", !.turnOrder = order,
                                !.currentTurn = IF Len(order) = 0 THEN NoPlayer ELSE order[1],
                                !.gameData = h.init, !.turnCount = 0])

CheckGameStart(e, h) ==
    IF ~e.activeGames THEN e
    ELSE LET readyPlayers == SelectSeq(e.players, LAMBDA p : p \in e.ready)
         IN IF Len(readyPlayers) >= e.config.minPlayers
               /\ Len(readyPlayers) = Len(e.players)
            THEN StartGame(e, h)
            ELSE e

\* addPlayer whose capacity check lets one player too many in.
AddPlayer_OffByOne(e, p, h) ==
    IF ~e.activeGames THEN Throw(e, "Game not found")
    ELSE IF Len(e.players) > e.maxPlayers THEN Throw(e, "Game is full")
    ELSE IF p \in Range(e.players) THEN Throw(e, "Player already in game")
    ELSE LET e1 == [e EXCEPT !.players = Append(@, p), !.ready = @ \ {p}]
         IN IF Len(e1.players) >= e1.config.minPlayers
            THEN CheckGameStart(e1, h)
            ELSE e1

\* addPlayer without the check for a player already in the game.
AddPlayer_NoDupCheck(e, p, h) ==
    IF ~e.activeGames THEN Throw(e, "Game not found")
    ELSE IF Len(e.players) >= e.maxPlayers THEN Throw(e, "Game is full")
    ELSE LET e1 == [e EXCEPT !.players = Append(@, p), !.ready = @ \ {p}]
         IN IF Len(e1.players) >= e1.config.minPlayers
            THEN CheckGameStart(e1, h)
            ELSE e1

\* addPlayer that lets the new player in as ready.
AddPlayer_JoinsReady(e, p, h) ==
    IF ~e.activeGames THEN Throw(e, "Game not found")
    ELSE IF Len(e.players) >= e.maxPlayers THEN Throw(e, "Game is full")
    ELSE IF p \in Range(e.players) THEN Throw(e, "Player already in game")
    ELSE LET e1 == [e EXCEPT !.players = Append(@, p), !.ready = @ \cup {p}]
         IN IF Len(e1.players) >= e1.config.minPlayers
            THEN CheckGameStart(e1, h)
            ELSE e1

AddPlayer(e, p, h) ==
    IF ~e.activeGames THEN Throw(e, "Game not found")
    ELSE IF Len(e.players) >= e.maxPlayers THEN Throw(e, "Game is full")
    ELSE IF p \in Range(e.players) THEN Throw(e, "Player already in game")
    ELSE LET e1 == [e EXCEPT !.players = Append(@, p), !.ready = @ \ {p}]
         IN IF Len(e1.players) >= e1.config.minPlayers
            THEN CheckGameStart(e1, h)
            ELSE e1

\* removePlayer that advances the turn whoever leaves an active game.
RemovePlayer_AlwaysNext(e, p) ==
    IF ~e.activeGames THEN Throw(e, "Game not found")
    ELSE LET playerIndex == IndexOf(e.players, p) IN
         IF playerIndex = -1 THEN Throw(e, "Player not found in game")
         ELSE LET e1 == [e EXCEPT !.players = Splice(@, playerIndex), !.ready = @ \ {p}]
                  e2 == IF e1.status = "active"
                        THEN NextTurn(e1) ELSE e1
              IN IF e2.thrown # NoError THEN e2
                 ELSE IF Len(e2.players) < e2.config.minPlayers /\ e2.status = "active"
                      THEN EndGame(e2, "insufficient_players", NoPlayer)
                      ELSE e2

\* removePlayer without the check of findIndex's answer: splice(-1, 1)
\* takes the last player out.
RemovePlayer_NoFoundCheck(e, p) ==
    IF ~e.activeGames THEN Throw(e, "Game not found")
    ELSE LET playerIndex == IndexOf(e.players, p)
             e1 == [e EXCEPT !.players = IF playerIndex = -1
                                         THEN SubSeq(@, 1, Len(@) - 1)
                                         ELSE Splice(@, playerIndex),
                             !.ready = @ \cap Range(IF playerIndex = -1
                                                    THEN SubSeq(e.players, 1, Len(e.players) - 1)
                                                    ELSE Splice(e.players, playerIndex))]
             e2 == IF e1.status = "active" /\ e1.currentTurn = p
                   THEN NextTurn(e1) ELSE e1
         IN IF e2.thrown # NoError THEN e2
            ELSE IF Len(e2.players) < e2.config.minPlayers /\ e2.status = "active"
                 THEN EndGame(e2, "insufficient_players", NoPlayer)
                 ELSE e2

\* removePlayer that takes the player out of turnOrder as well.
RemovePlayer_RepairsOrder(e, p) ==
    IF ~e.activeGames THEN Throw(e, "Game not found")
    ELSE LET playerIndex == IndexOf(e.players, p) IN
         IF playerIndex = -1 THEN Throw(e, "Player not found in game")
         ELSE LET e1 == [e EXCEPT !.players = Splice(@, playerIndex), !.ready = @ \ {p},
                                  !.turnOrder = SelectSeq(@, LAMBDA q : q # p)]
                  e2 == IF e1.status = "active" /\ e1.currentTurn = p
                        THEN NextTurn(e1) ELSE e1
              IN IF e2.thrown # NoError THEN e2
                 ELSE IF Len(e2.players) < e2.config.minPlayers /\ e2.status = "active"
                      THEN EndGame(e2, "insufficient_players", NoPlayer)
                      ELSE e2

RemovePlayer(e, p) ==
    IF ~e.activeGames THEN Throw(e, "Game not found")
    ELSE LET playerIndex == IndexOf(e.players, p) IN
         IF playerIndex = -1 THEN Throw(e, "Player not found in game")
         ELSE LET e1 == [e EXCEPT !.players = Splice(@, playerIndex), !.ready = @ \ {p}]
                  e2 == IF e1.status = "active" /\ e1.currentTurn = p
                        THEN NextTurn(e1) ELSE e1
              IN IF e2.thrown # NoError THEN e2
                 ELSE IF Len(e2.players) < e2.config.minPlayers /\ e2.status = "active"
                      THEN EndGame(e2, "insufficient_players", NoPlayer)
                      ELSE e2

\* processAction without the check of the turn holder.
ProcessAction_NoTurnCheck(e, p, h) ==
    IF ~e.activeGames THEN Throw(e, "Game not found")
    ELSE IF e.status # "active" THEN Throw(e, "Game is not active")
    ELSE IF ~h.valid THEN Throw(e, "Invalid action")
    ELSE LET e1 == [e EXCEPT !.gameData = h.result.gameData]
         IN IF h.result.gameEnded
            THEN EndGame(e1, h.result.endReason, h.result.winner)
            ELSE NextTurn(e1)

\* processAction that ends the game without passing the winner on.
ProcessAction_EndNoWinner(e, p, h) ==
    IF ~e.activeGames THEN Throw(e, "Game not found")
    ELSE IF e.status # "active" THEN Throw(e, "Game is not active")
    ELSE IF e.currentTurn # p THEN Throw(e, "Not your turn")
    ELSE IF ~h.valid THEN Throw(e, "Invalid action")
    ELSE LET e1 == [e EXCEPT !.gameData = h.result.gameData]
         IN IF h.result.gameEnded
            THEN EndGame(e1, h.result.endReason, NoPlayer)
            ELSE NextTurn(e1)

\* processAction that goes on whatever validateAction answered.
ProcessAction_IgnoreVerdict(e, p, h) ==
    IF ~e.activeGames THEN Throw(e, "Game not found")
    ELSE IF e.status # "active" THEN Throw(e, "Game is not active")
    ELSE IF e.currentTurn # p THEN Throw(e, "Not your turn")
    ELSE LET e1 == [e EXCEPT !.gameData = h.result.gameData]
         IN IF h.result.gameEnded
            THEN EndGame(e1, h.result.endReason, h.result.winner)
            ELSE NextTurn(e1)

\* processAction without the check of the active status.
ProcessAction_NoStatusCheck(e, p, h) ==
    IF ~e.activeGames THEN Throw(e, "Game not found")
    ELSE IF e.currentTurn # p THEN Throw(e, "Not your turn")
    ELSE IF ~h.valid THEN Throw(e, "Invalid action")
    ELSE LET e1 == [e EXCEPT !.gameData = h.result.gameData]
         IN IF h.result.gameEnded
            THEN EndGame(e1, h.result.endReason, h.result.winner)
            ELSE NextTurn(e1)

ProcessAction(e, p, h) ==
    IF ~e.activeGames THEN Throw(e, "Game not found")
    ELSE IF e.status # "active" THEN Throw(e, "Game is not active")
    ELSE IF e.currentTurn # p THEN Throw(e, "Not your turn")
    ELSE IF ~h.valid THEN Throw(e, "Invalid action")
    ELSE LET e1 == [e EXCEPT !.gameData = h.result.gameData]
         IN IF h.result.gameEnded
            THEN EndGame(e1, h.result.endReason, h.result.winner)
            ELSE NextTurn(e1)

\* handleGameTimeout that does nothing.
HandleGameTimeout_Ignore(e) == e

HandleGameTimeout(e) == EndGame(e, "timeout", NoPlayer)

\* handleTurnTimeout that skips the turn whatever getDefaultAction supplied.
HandleTurnTimeout_SkipOnly(e, defaultAction, h) ==
    IF ~e.activeGames THEN e
    ELSE NextTurn(e)

\* handleTurnTimeout: defaultAction is the action the getDefaultAction hook
\* supplied (FALSE = null).
HandleTurnTimeout(e, defaultAction, h) ==
    IF ~e.activeGames THEN e
    ELSE IF defaultAction THEN ProcessAction(e, e.currentTurn, h)
    ELSE NextTurn(e)

\* The ready handlers (HTTP /ready route, socket player_ready) write the
\* flag of the caller's player record, if the caller is in the game.
SetReady(e, p, r) ==
    IF ~e.activeGames THEN Throw(e, "Game not found")
    ELSE IF p \in Range(e.players)
         THEN [e EXCEPT !.ready = IF r THEN @ \cup {p} ELSE @ \ {p}]
         ELSE e

\* getGameState returns a copy of game.state (gameData through
\* filterPrivateData) and writes nothing.
GetGameState(e) ==
    IF ~e.activeGames THEN Throw(e, "Game not found") ELSE e

\* getGame: this.activeGames.get(gameId); <<>> is undefined.
GetGame(e) == IF e.activeGames THEN <<e>> ELSE <<>>

\* ---- configuration -----------------------------------------------------
DefaultMaxPlayers == 8   \* config.game.maxPlayersPerGame

DefaultMinPlayers == 2   \* req.body.minPlayers || 2

MinCfgPlayers == 2       \* body('maxPlayers').isInt({ min: 2, max: 8 })

\* The configurations the create route supplies: maxPlayers is validated to
\* be an integer from 2 up (here: a game for two and a game for three),
\* minPlayers is left to its default.
Configs ==
    [maxPlayers : {MinCfgPlayers, MinCfgPlayers + 1}, minPlayers : {DefaultMinPlayers}]

\* createGame that sets the supplied configuration aside for the defaults.
CreateGame_IgnoresConfig(e, cfg) ==
    SetGameTimeout(
        [e EXCEPT !.activeGames = TRUE,
                  !.config = [maxPlayers |-> DefaultMaxPlayers,
                              minPlayers |-> DefaultMinPlayers],
                  !.maxPlayers = DefaultMaxPlayers,
                  !.status = "waiting", !.players = <<>>, !.ready = {},
                  !.currentTurn = NoPlayer, !.turnOrder = <<>>, !.gameData = 0])

CreateGame(e, cfg) ==
    SetGameTimeout(
        [e EXCEPT !.activeGames = TRUE, !.config = cfg,
                  !.maxPlayers = IF cfg.maxPlayers # 0 THEN cfg.maxPlayers
                                 ELSE DefaultMaxPlayers,
                  !.status = "waiting", !.players = <<>>, !.ready = {},
                  !.currentTurn = NoPlayer, !.turnOrder = <<>>, !.gameData = 0])

\* POST /create: createGame with the validated configuration, then
\* addPlayer of the creator.
CreateRoute(e, cfg, creator) == AddPlayer(CreateGame(e, cfg), creator, BaseStartHooks)

\* ---- the calls ---------------------------------------------------------
\* The engine keeps nothing of a call but its effect on the game: an error
\* goes to the caller (e.thrown) and leaves the assignments made before it.
Commit(e) ==
    /\ activeGames' = e.activeGames
    /\ config' = e.config
    /\ maxPlayers' = e.maxPlayers
    /\ status' = e.status
    /\ players' = e.players
    /\ ready' = e.ready
    /\ currentTurn' = e.currentTurn
    /\ turnOrder' = e.turnOrder
    /\ gameData' = e.gameData
    /\ endReason' = e.endReason
    /\ winner' = e.winner
    /\ gameTimers' = e.gameTimers
    /\ turnTimers' = e.turnTimers
    /\ purgeTimers' = e.purgeTimers
    /\ endCount' = e.endCount
    /\ turnCount' = e.turnCount

\* No game under the id: the id is not a key of any of the engine's maps and
\* no game object is reachable through it.
Deleted ==
    [activeGames |-> FALSE, config |-> [maxPlayers |-> 0, minPlayers |-> 0],
     maxPlayers |-> 0, status |-> "none", players |-> <<>>, ready |-> {},
     currentTurn |-> NoPlayer, turnOrder |-> <<>>, gameData |-> 0,
     endReason |-> "none", winner |-> NoPlayer, gameTimers |-> FALSE,
     turnTimers |-> FALSE, purgeTimers |-> 0, endCount |-> 0, turnCount |-> 0,
     thrown |-> NoError, emitted |-> <<>>, saved |-> 0, saveErrors |-> 0,
     saveFails |-> FALSE]

\* The GameEngine instance of the socket handler.  SocketHandler builds its
\* own instance and calls only processAction, getGame, checkGameStart and
\* getGameState on it, so its activeGames never holds a game.
SocketEngine == Deleted

Init ==
    /\ created = FALSE
    /\ activeGames = Deleted.activeGames
    /\ config = Deleted.config
    /\ maxPlayers = Deleted.maxPlayers
    /\ status = Deleted.status
    /\ players = Deleted.players
    /\ ready = Deleted.ready
    /\ currentTurn = Deleted.currentTurn
    /\ turnOrder = Deleted.turnOrder
    /\ gameData = Deleted.gameData
    /\ endReason = Deleted.endReason
    /\ winner = Deleted.winner
    /\ gameTimers = Deleted.gameTimers
    /\ turnTimers = Deleted.turnTimers
    /\ purgeTimers = Deleted.purgeTimers
    /\ endCount = Deleted.endCount
    /\ turnCount = Deleted.turnCount

CreateGameCall ==
    /\ ~created
    /\ created' = TRUE
    /\ \E cfg \in Configs :
          LET e == CreateGame(Engine, cfg) IN Commit(e)

\* Player identifiers are opaque to the engine: a caller the game holds no
\* trace of joins under the least identifier that is not in use.
Known(e) ==
    (Range(e.players) \cup Range(e.turnOrder) \cup {e.currentTurn, e.winner}) \ {NoPlayer}

Joiners(e) ==
    Known(e) \cup {p \in PlayerIds \ Known(e) : \A q \in PlayerIds \ Known(e) : p <= q}

AddPlayerCall ==
    /\ created
    /\ UNCHANGED created
    /\ \E p \in Joiners(Engine) :
       \E h \in StartHooksAsked(AddPlayer(Engine, p, BaseStartHooks)) :
          LET e == AddPlayer(Engine, p, h) IN Commit(e)

\* The engine with the persistence layer in the given condition.
Env(fails) == [Engine EXCEPT !.saveFails = fails]

\* The outcome of save() matters only to a call that reaches saveGameState;
\* e0 is the outcome of the call with a save that succeeds.
SaveOutcomesAsked(e0) == IF e0.saved > 0 THEN BOOLEAN ELSE {FALSE}

RemovePlayerCall ==
    /\ created
    /\ UNCHANGED created
    /\ \E p \in PlayerIds :
       \E f \in SaveOutcomesAsked(RemovePlayer(Engine, p)) :
          LET e == RemovePlayer(Env(f), p)
          IN /\ e.turnCount <= MaxTurns
             /\ Commit(e)

SetReadyCall ==
    /\ created
    /\ UNCHANGED created
    /\ \E p \in PlayerIds, r \in BOOLEAN :
          LET e == SetReady(Engine, p, r) IN Commit(e)

CheckGameStartCall ==
    /\ created
    /\ UNCHANGED created
    /\ \E h \in StartHooksAsked(CheckGameStart(Engine, BaseStartHooks)) :
          LET e == CheckGameStart(Engine, h) IN Commit(e)

StartGameCall ==
    /\ created
    /\ UNCHANGED created
    /\ \E h \in StartHooksAsked(StartGame(Engine, BaseStartHooks)) :
          LET e == StartGame(Engine, h) IN Commit(e)

ProcessActionCall ==
    /\ created
    /\ UNCHANGED created
    /\ \E p \in PlayerIds :
       \E h \in ActionHooksAsked(Engine, p) :
       \E f \in SaveOutcomesAsked(ProcessAction(Engine, p, h)) :
          LET e == ProcessAction(Env(f), p, h)
          IN /\ e.turnCount <= MaxTurns
             /\ Commit(e)

\* endGame called from outside the engine (the inbound end operation).
EndArgs == {<<"aborted", NoPlayer>>}

EndGameCall ==
    /\ created
    /\ endCount < MaxEndCalls
    /\ UNCHANGED created
    /\ \E a \in EndArgs, f \in BOOLEAN :
          LET e == EndGame(Env(f), a[1], a[2]) IN Commit(e)

\* The game-lifetime timer fires.
GameTimeout ==
    /\ gameTimers
    /\ UNCHANGED created
    /\ \E f \in BOOLEAN :
          LET e == HandleGameTimeout(Env(f)) IN Commit(e)

\* The turn timer fires.  this.turnTimers never holds a timer (SetTurnTimer),
\* so no behaviour of the engine takes this step; it is not part of Next.
TurnTimeout ==
    /\ turnTimers
    /\ UNCHANGED created
    /\ \E d \in BOOLEAN, h \in ActionHooks(currentTurn) :
          LET e == HandleTurnTimeout([Engine EXCEPT !.turnTimers = FALSE], d, h)
          IN /\ e.turnCount <= MaxTurns
             /\ Commit(e)

\* A purge callback scheduled by endGame fires: this.activeGames.delete.
Purge ==
    /\ purgeTimers > 0
    /\ UNCHANGED created
    /\ LET e == [Deleted EXCEPT !.purgeTimers = purgeTimers - 1, !.endCount = endCount]
       IN Commit(e)

Next ==
    \/ CreateGameCall
    \/ AddPlayerCall
    \/ RemovePlayerCall
    \/ SetReadyCall
    \/ CheckGameStartCall
    \/ StartGameCall
    \/ ProcessActionCall
    \/ EndGameCall
    \/ GameTimeout
    \/ Purge

Spec == Init /\ [][Next]_vars

\* The calls with a game type whose payload stays the {} of the base class
\* (the hooks still accept or reject, and end the game or not); the timers
\* do not look at the payload.
BasePayload == gameData' = 0

FairNext ==
    \/ CreateGameCall
    \/ AddPlayerCall
    \/ RemovePlayerCall
    \/ SetReadyCall
    \/ CheckGameStartCall /\ BasePayload
    \/ StartGameCall /\ BasePayload
    \/ ProcessActionCall /\ BasePayload
    \/ EndGameCall
    \/ GameTimeout
    \/ Purge

\* The timers of the runtime fire: a pending game-lifetime timer and a
\* pending removal are not postponed for ever.
FairSpec == Init /\ [][FairNext]_vars /\ WF_vars(GameTimeout) /\ WF_vars(Purge)

TypeOK ==
    /\ status \in {"none", "waiting", "active", "ended"}
    /\ Range(players) \subseteq PlayerIds
    /\ ready \subseteq Range(players)
    /\ currentTurn \in PlayerIds \cup {NoPlayer}
    /\ turnTimers \in BOOLEAN
    /\ turnCount \in 0..MaxTurns
    /\ endCount \in 0..MaxEndCalls

\* ---- properties --------------------------------------------------------
\* The game the id leads to, with no call in progress.
Same(e) == [e EXCEPT !.thrown = NoError] = Engine

IsPermutation(a, b) ==
    /\ Len(a) = Len(b)
    /\ Range(a) = Range(b)
    /\ \A i, j \in 1..Len(a) : a[i] = a[j] => i = j

StatusRank(st) == CASE st = "waiting" -> 1 [] st = "active" -> 2 [] st = "ended" -> 3 [] OTHER -> 0

\* C1: in an active game, processAction by any caller other than currentTurn
\* raises 'Not your turn' and leaves gameData, currentTurn, the turn timer and
\* the rest of the game as they were.
C1_NotYourTurn ==
    (activeGames /\ status = "active") =>
        \A p \in PlayerIds \ {currentTurn} : \A h \in ActionHooks(p) :
            LET e == ProcessAction(Engine, p, h)
            IN /\ e.thrown = "Not your turn"
               /\ e.gameData = gameData
               /\ e.currentTurn = currentTurn
               /\ e.turnTimers = turnTimers
               /\ Same(e)

\* An active game with played turns, in which a participant who does not hold
\* the turn is turned away.
C1_Witness ==
    /\ activeGames /\ status = "active" /\ turnCount > 0 /\ gameData = MaxData
    /\ \E p \in Range(players) \ {currentTurn} : \A h \in ActionHooks(p) :
          ProcessAction(Engine, p, h).thrown = "Not your turn"

\* C2: in an active game, after n executions of nextTurn since the start
\* (turnOrder is fixed from the start on), currentTurn is turnOrder[n mod k],
\* k the length of turnOrder.
C2_Rotation ==
    (activeGames /\ status = "active" /\ Len(turnOrder) > 0) =>
        currentTurn = turnOrder[(turnCount % Len(turnOrder)) + 1]

\* The rotation has wrapped around a turn order of at least two players.
C2_Witness ==
    /\ activeGames /\ status = "active"
    /\ Len(turnOrder) >= 2 /\ turnCount >= Len(turnOrder)

\* C3: a step that takes a waiting game to active leaves the participants as
\* they are, makes turnOrder a permutation of exactly their identifiers and
\* makes currentTurn the first entry of turnOrder.
C3_StartGame ==
    [][(activeGames /\ status = "waiting" /\ status' = "active") =>
          /\ Len(players) >= config.minPlayers
          /\ players' = players
          /\ IsPermutation(turnOrder', players)
          /\ currentTurn' = turnOrder'[1]]_vars

\* A started game of three players whose turn order is not the join order.
C3_Witness ==
    /\ activeGames /\ status = "active" /\ turnCount = 0
    /\ Len(players) = 3 /\ IsPermutation(turnOrder, players) /\ turnOrder # players
    /\ currentTurn = turnOrder[1]

\* C4: the number of participants never exceeds config.maxPlayers.
C4_MaxPlayers == activeGames => Len(players) <= config.maxPlayers

\* A full game that turns a further player away.
C4_Witness ==
    /\ activeGames /\ Len(players) = config.maxPlayers
    /\ \E p \in PlayerIds \ Range(players) : \A h \in StartHooks(NumPlayers) :
          LET e == AddPlayer(Engine, p, h)
          IN e.thrown = "Game is full" /\ e.players = players

\* C5: in an active game a non-null currentTurn is an entry of turnOrder and
\* the identifier of a participant still in players.
C5_CurrentTurnPresent ==
    (activeGames /\ status = "active" /\ currentTurn # NoPlayer) =>
        currentTurn \in Range(turnOrder) /\ currentTurn \in Range(players)

\* C6: a game is active if and only if its turn timer and its game-lifetime
\* timer are both armed.
C6_ActiveIffTimers ==
    activeGames => ((status = "active") <=> (turnTimers /\ gameTimers))

\* C7: an ended game has neither its turn timer nor its game-lifetime timer
\* armed, whatever is called on it after the end.
C7_EndedNoTimers ==
    (activeGames /\ status = "ended") => (~turnTimers /\ ~gameTimers)

\* An ended game that was called again after its end: endGame a second time,
\* and a participant who joined after the end.
C7_Witness ==
    /\ activeGames /\ status = "ended" /\ endCount = 2
    /\ Range(players) \ Range(turnOrder) # {}
    /\ ~turnTimers /\ ~gameTimers

\* C8: once a game has ended, no later call changes its status, endReason or
\* winner.
C8_EndIdempotent ==
    [][(activeGames /\ status = "ended" /\ activeGames') =>
          (status' = "ended" /\ endReason' = endReason /\ winner' = winner)]_vars

\* C9: a game's status never goes back: active never becomes waiting, ended
\* never becomes waiting or active.
C9_StatusMonotonic ==
    [][(activeGames /\ activeGames') => StatusRank(status') >= StatusRank(status)]_vars

\* A game that went from waiting through active to ended and was called
\* again after that.
C9_Witness ==
    /\ activeGames /\ status = "ended" /\ turnOrder # <<>> /\ endCount = 2

\* C10: when the turn holder's action is valid and executeAction returns
\* gameEnded with winner W, the call returns with the game ended, winner W,
\* the hook's endReason, the returned gameData committed, both timers
\* disarmed and no further turn started.
C10_ActionEndsGame ==
    (activeGames /\ status = "active") =>
        \A h \in ActionHooks(currentTurn) :
            (h.valid /\ h.result.gameEnded) =>
                LET e == ProcessAction(Engine, currentTurn, h)
                IN /\ e.thrown = NoError
                   /\ e.status = "ended"
                   /\ e.winner = h.result.winner
                   /\ e.endReason = h.result.endReason
                   /\ e.gameData = h.result.gameData
                   /\ ~e.turnTimers /\ ~e.gameTimers
                   /\ e.currentTurn = currentTurn

\* A game ended by an action of the turn holder, who won it.
C10_Witness ==
    /\ activeGames /\ status = "ended" /\ endReason = "victory"
    /\ winner = currentTurn /\ winner \in Range(players)
    /\ gameData = MaxData /\ endCount = 1
    /\ ~turnTimers /\ ~gameTimers

\* C11: removePlayer on an active game that leaves fewer than
\* config.minPlayers participants returns with the game ended for
\* 'insufficient_players', whoever is removed, the turn holder included.
C11_RemoveEndsGame ==
    (activeGames /\ status = "active") =>
        \A p \in Range(players) :
            (Len(players) - 1 < config.minPlayers) =>
                LET e == RemovePlayer(Engine, p)
                IN e.status = "ended" /\ e.endReason = "insufficient_players"

\* C12: removing a participant who does not hold the turn from an active
\* game that keeps at least config.minPlayers participants leaves
\* currentTurn, turnOrder, gameData, status and the turn timer as they were
\* and shortens players by exactly that participant.
C12_RemoveOther ==
    (activeGames /\ status = "active") =>
        \A p \in Range(players) \ {currentTurn} :
            (Len(players) - 1 >= config.minPlayers) =>
                LET e == RemovePlayer(Engine, p)
                IN /\ e.thrown = NoError
                   /\ e.currentTurn = currentTurn
                   /\ e.turnOrder = turnOrder
                   /\ e.gameData = gameData
                   /\ e.status = "active"
                   /\ e.turnTimers = turnTimers
                   /\ Len(e.players) = Len(players) - 1
                   /\ Range(e.players) = Range(players) \ {p}

\* A game started by three players that one of the two not holding the
\* turn has left before any turn was played.
C12_Witness ==
    /\ activeGames /\ status = "active" /\ turnCount = 0
    /\ Len(turnOrder) = 3 /\ Len(players) = 2
    /\ Range(players) \subseteq Range(turnOrder)
    /\ currentTurn = turnOrder[1] /\ currentTurn \in Range(players)

\* C13: removing the turn holder from an active game that keeps at least
\* config.minPlayers participants returns with the game still active,
\* currentTurn on the next participant still in players after the removed
\* one in turnOrder (cyclically), and a turn timer armed for that holder.
C13_RemoveHolderAdvances ==
    (activeGames /\ status = "active" /\ currentTurn \in Range(players)
       /\ currentTurn \in Range(turnOrder)
       /\ Len(players) - 1 >= config.minPlayers) =>
        LET e == RemovePlayer(Engine, currentTurn)
            k == Len(turnOrder)
            i == IndexOf(turnOrder, currentTurn)
        IN /\ e.thrown = NoError
           /\ e.status = "active"
           /\ \E d \in 1..k :
                 /\ e.currentTurn = turnOrder[((i + d) % k) + 1]
                 /\ e.currentTurn \in Range(e.players)
                 /\ \A c \in 1..(d - 1) :
                       turnOrder[((i + c) % k) + 1] \notin Range(e.players)
           /\ e.turnTimers

\* C14: in an active game of two players, the turn-timeout handler run
\* with no default action (getDefaultAction returns null) hands currentTurn
\* to the other player, leaves gameData alone, keeps the game active and
\* leaves a turn timer armed for the new holder.
C14_TimeoutSkip ==
    (activeGames /\ status = "active" /\ Len(players) = 2
       /\ IsPermutation(turnOrder, players) /\ currentTurn \in Range(players)) =>
        \A h \in ActionHooks(currentTurn) :
            LET e == HandleTurnTimeout(ClearTurnTimer(Engine), FALSE, h)
            IN /\ e.thrown = NoError
               /\ e.currentTurn \in Range(players) \ {currentTurn}
               /\ e.gameData = gameData
               /\ e.status = "active"
               /\ e.turnTimers

\* C15: in an active game, the turn-timeout handler run with a default
\* action a for the turn holder p leaves the game exactly as
\* processAction(p, a) leaves it: the same verdict of validateAction, and
\* for a valid action the gameData of executeAction committed and the game
\* ended (if the hook says so) or nextTurn executed.
C15_TimeoutAsAction ==
    (activeGames /\ status = "active") =>
        \A h \in ActionHooks(currentTurn) :
            LET e == HandleTurnTimeout(Engine, TRUE, h)
            IN /\ e = ProcessAction(Engine, currentTurn, h)
               /\ ~h.valid => (e.thrown = "Invalid action" /\ Same(e))
               /\ h.valid =>
                     /\ e.gameData = h.result.gameData
                     /\ IF h.result.gameEnded
                        THEN e.status = "ended" /\ e.winner = h.result.winner
                                /\ e.turnCount = 0
                        ELSE e.status = "active" /\ e.turnCount = turnCount + 1

\* An active game with played turns in which the default action of the turn
\* holder, a participant, wins the game for that player.
C15_Witness ==
    /\ activeGames /\ status = "active" /\ turnCount > 0
    /\ currentTurn \in Range(players)
    /\ \E h \in ActionHooks(currentTurn) :
          /\ h.valid /\ h.result.gameEnded
          /\ LET e == HandleTurnTimeout(Engine, TRUE, h)
             IN e.status = "ended" /\ e.winner = currentTurn
                  /\ e.endReason = "victory" /\ e.gameData = h.result.gameData

\* C16: in an active game, whatever the hooks do inside the turn-timeout
\* handler (default action or none, accepted or rejected), no error leaves
\* the handler and the game is afterwards ended or active with a turn timer
\* armed.
C16_TimeoutNeverStuck ==
    (activeGames /\ status = "active") =>
        \A d \in BOOLEAN : \A h \in ActionHooks(currentTurn) :
            LET e == HandleTurnTimeout(ClearTurnTimer(Engine), d, h)
            IN /\ e.thrown = NoError
               /\ \/ e.status = "ended"
                  \/ e.status = "active" /\ e.turnTimers

\* C17: the game-lifetime timer is armed from createGame on for as long as
\* the game is waiting or active (startGame leaves it armed), it is never
\* armed again once it is gone, it goes only when the game ends, and when
\* it fires the game is ended with endReason 'timeout', waiting or active.
C17_GameTimer ==
    /\ [](/\ activeGames => (gameTimers <=> status \in {"waiting", "active"})
          /\ ~activeGames => ~gameTimers
          /\ gameTimers =>
                LET e == HandleGameTimeout(Engine)
                IN /\ e.thrown = NoError
                   /\ e.status = "ended" /\ e.endReason = "timeout"
                   /\ ~e.gameTimers)
    /\ [][(activeGames /\ activeGames') =>
             /\ gameTimers' => gameTimers
             /\ (gameTimers /\ ~gameTimers') => status' = "ended"]_vars

\* A game whose lifetime timer fired while it was active, after turns were
\* played.
C17_Witness ==
    /\ activeGames /\ status = "ended" /\ endReason = "timeout"
    /\ turnOrder # <<>> /\ endCount = 1 /\ ~gameTimers

\* C18: when validateAction rejects the action of the turn holder,
\* processAction raises the hook's error, nothing of executeAction's result
\* is committed and currentTurn, gameData, status, the turn timer and the
\* rest of the game stay as they were.
C18_InvalidAction ==
    (activeGames /\ status = "active") =>
        \A h \in ActionHooks(currentTurn) :
            ~h.valid =>
                LET e == ProcessAction(Engine, currentTurn, h)
                IN /\ e.thrown = "Invalid action"
                   /\ e.currentTurn = currentTurn
                   /\ e.gameData = gameData
                   /\ e.status = status
                   /\ e.turnTimers = turnTimers
                   /\ Same(e)

\* An active game with played turns and non-default gameData in which the
\* turn holder, a participant, submits an action that is rejected.
C18_Witness ==
    /\ activeGames /\ status = "active" /\ turnCount > 0 /\ gameData = MaxData
    /\ currentTurn \in Range(players)
    /\ \E h \in ActionHooks(currentTurn) :
          ~h.valid /\ ProcessAction(Engine, currentTurn, h).thrown = "Invalid action"

\* C19: startGame raises 'Game is not in waiting status' on a game that is
\* active or ended and 'Not enough players to start game' on a waiting game
\* with fewer than config.minPlayers participants; either way the game is
\* left as it was.
C19_StartGameFails ==
    activeGames =>
        \A h \in StartHooks(Len(players)) :
            LET e == StartGame(Engine, h)
            IN /\ status # "waiting" =>
                     (e.thrown = "Game is not in waiting status" /\ Same(e))
               /\ (status = "waiting" /\ Len(players) < config.minPlayers) =>
                     (e.thrown = "Not enough players to start game" /\ Same(e))

\* A waiting game with a single participant, who is ready, that cannot be
\* started.
C19_Witness ==
    /\ activeGames /\ status = "waiting" /\ Len(players) = 1
    /\ ready = Range(players) /\ Len(players) < config.minPlayers
    /\ StartGame(Engine, BaseStartHooks).thrown = "Not enough players to start game"

\* C20: on a waiting or ended game processAction raises 'Game is not
\* active' for every caller and every action, whatever the hooks would
\* answer, and leaves the game as it was.
C20_NotActive ==
    (activeGames /\ status \in {"waiting", "ended"}) =>
        \A p \in PlayerIds : \A h \in ActionHooks(p) :
            LET e == ProcessAction(Engine, p, h)
            IN e.thrown = "Game is not active" /\ Same(e)

\* An ended game whose last turn holder, still a participant, submits an
\* action that the hooks would accept.
C20_Witness ==
    /\ activeGames /\ status = "ended" /\ currentTurn \in Range(players)
    /\ \E h \in ActionHooks(currentTurn) :
          h.valid /\ ProcessAction(Engine, currentTurn, h).thrown = "Game is not active"

\* C21: addPlayer on a game that is active or ended adds nobody to players.
C21_AddOnlyWaiting ==
    (activeGames /\ status \in {"active", "ended"}) =>
        \A p \in PlayerIds :
            AddPlayer(Engine, p, BaseStartHooks).players = players

\* C22: addPlayer raises 'Game is full' on a game that has maxPlayers
\* participants and 'Player already in game' for an identifier that is in
\* players; either way the game is left as it was.
C22_AddPlayerFails ==
    activeGames =>
        \A p \in PlayerIds :
            LET e == AddPlayer(Engine, p, BaseStartHooks)
            IN /\ Len(players) >= maxPlayers =>
                     (e.thrown = "Game is full" /\ Same(e))
               /\ (Len(players) < maxPlayers /\ p \in Range(players)) =>
                     (e.thrown = "Player already in game" /\ Same(e))

\* A waiting game with room left that turns away a player who is already
\* in it.
C22_Witness ==
    /\ activeGames /\ status = "waiting" /\ Len(players) = 1
    /\ Len(players) < maxPlayers
    /\ \E p \in Range(players) :
          AddPlayer(Engine, p, BaseStartHooks).thrown = "Player already in game"

\* C23: no identifier is twice in players, and every step either leaves
\* players alone, appends one new identifier at the end, or takes one
\* identifier out and keeps the others in their order.
C23_PlayersUniqueOrdered ==
    /\ [](\A i, j \in 1..Len(players) : players[i] = players[j] => i = j)
    /\ [][(activeGames /\ activeGames') =>
             \/ players' = players
             \/ \E p \in PlayerIds \ Range(players) : players' = Append(players, p)
             \/ \E i \in 1..Len(players) :
                   players' = SubSeq(players, 1, i - 1) \o SubSeq(players, i + 1, Len(players))]_vars

\* Three players of whom the second left and joined again: the one who
\* joined after that player now stands before that player.
C23_Witness ==
    /\ activeGames /\ status = "waiting" /\ players = <<1, 3, 2>>

\* C24: removePlayer with an identifier that is not in players raises
\* 'Player not found in game' and leaves players, status, currentTurn,
\* turnOrder, the timers and the rest of the game as they were.
C24_RemoveAbsent ==
    activeGames =>
        \A p \in PlayerIds \ Range(players) :
            LET e == RemovePlayer(Engine, p)
            IN /\ e.thrown = "Player not found in game"
               /\ e.players = players /\ e.status = status
               /\ e.currentTurn = currentTurn /\ e.turnOrder = turnOrder
               /\ e.gameTimers = gameTimers /\ e.turnTimers = turnTimers
               /\ Same(e)

\* An active game that a player of the turn order has left, and who is
\* turned away on leaving once more.
C24_Witness ==
    /\ activeGames /\ status = "active" /\ Len(players) >= 2
    /\ \E p \in Range(turnOrder) \ Range(players) :
          RemovePlayer(Engine, p).thrown = "Player not found in game"

\* C25: an ended game stays in this.activeGames, readable by id, with a
\* removal pending; the game leaves this.activeGames only by such a removal
\* and only when ended; once it is gone getGameState, addPlayer,
\* removePlayer, startGame, processAction and endGame raise 'Game not found'
\* and getGame returns nothing.
C25_PurgeAfterEnd ==
    /\ [](/\ (activeGames /\ status = "ended") =>
                /\ purgeTimers > 0
                /\ GetGame(Engine) = <<Engine>>
                /\ GetGameState(Engine).thrown = NoError
          /\ (created /\ ~activeGames) =>
                /\ GetGame(Engine) = <<>>
                /\ GetGameState(Engine).thrown = "Game not found"
                /\ StartGame(Engine, BaseStartHooks).thrown = "Game not found"
                /\ \A a \in EndArgs : EndGame(Engine, a[1], a[2]).thrown = "Game not found"
                /\ \A p \in PlayerIds :
                      /\ AddPlayer(Engine, p, BaseStartHooks).thrown = "Game not found"
                      /\ RemovePlayer(Engine, p).thrown = "Game not found"
                      /\ \A h \in ActionHooks(p) :
                            ProcessAction(Engine, p, h).thrown = "Game not found")
    /\ [][(activeGames /\ ~activeGames') =>
             (status = "ended" /\ purgeTimers' = purgeTimers - 1)]_vars

\* The game ended once and its removal has fired: the id leads nowhere.
C25_Witness ==
    /\ created /\ ~activeGames /\ endCount = 1 /\ purgeTimers = 0
    /\ GetGame(Engine) = <<>>
    /\ GetGameState(Engine).thrown = "Game not found"

\* C26: currentTurn is null whenever the game is waiting and whenever it is
\* ended.
C26_CurrentTurnNull ==
    (activeGames /\ status \in {"waiting", "ended"}) => currentTurn = NoPlayer

\* C27: endGame calls saveGameState once when it ends a game and not at all
\* on a game that is already ended.
C27_SingleSave ==
    activeGames =>
        \A a \in EndArgs :
            EndGame(Engine, a[1], a[2]).saved = IF status = "ended" THEN 0 ELSE 1

\* C28: endGame emits one gameEnded, with the reason and the winner, when it
\* ends a game, and none on a game that is already ended.
C28_SingleGameEnded ==
    activeGames =>
        \A a \in EndArgs :
            EndGame(Engine, a[1], a[2]).emitted =
                IF status = "ended" THEN <<>> ELSE <<GameEndedEvent(a[1], a[2])>>

\* C29: startGame on a waiting game with enough players makes it active and
\* emits exactly a gameStarted followed by a turnStarted for turnOrder[0].
C29_StartEvents ==
    (activeGames /\ status = "waiting" /\ Len(players) >= config.minPlayers) =>
        \A h \in StartHooks(Len(players)) :
            LET e == StartGame(Engine, h)
            IN /\ e.status = "active"
               /\ Len(e.emitted) = 2
               /\ e.emitted[1].type = "gameStarted"
               /\ e.emitted[2] = TurnStartedEvent(e.turnOrder[1])

\* C30: endGame with a save that fails returns normally and leaves exactly
\* what endGame with a save that succeeds leaves (status ended, endReason,
\* winner, both timers disarmed, the gameEnded event, one more removal
\* pending); the only difference is the logged failure.  The same holds
\* when the game-lifetime timer ends the game.
C30_SaveFailureIgnored ==
    activeGames =>
        /\ \A a \in EndArgs :
              LET ok == EndGame(Env(FALSE), a[1], a[2])
                  ko == EndGame(Env(TRUE), a[1], a[2])
              IN /\ ko.thrown = NoError
                 /\ ok.saveErrors = 0 /\ ko.saveErrors = 1
                 /\ [ko EXCEPT !.saveFails = FALSE, !.saveErrors = 0] = ok
                 /\ ko.status = "ended" /\ ko.endReason = a[1] /\ ko.winner = a[2]
                 /\ ~ko.gameTimers /\ ~ko.turnTimers
                 /\ ko.emitted = <<GameEndedEvent(a[1], a[2])>>
                 /\ ko.purgeTimers = purgeTimers + 1
        /\ LET ok == HandleGameTimeout(Env(FALSE))
               ko == HandleGameTimeout(Env(TRUE))
           IN ko.thrown = NoError
                /\ [ko EXCEPT !.saveFails = FALSE, !.saveErrors = 0] = ok

\* An active game with played turns whose end meets a failing save.
C30_Witness ==
    /\ activeGames /\ status = "active" /\ turnCount > 0 /\ gameTimers
    /\ \E a \in EndArgs :
          LET ko == EndGame(Env(TRUE), a[1], a[2])
          IN ko.saved = 1 /\ ko.saveErrors = 1 /\ ko.status = "ended"

\* C31: turnOrder changes only in the step that takes a waiting game to
\* active; no later step of the game's life changes it.
C31_TurnOrderFixed ==
    [][(activeGames /\ activeGames' /\ turnOrder' # turnOrder) =>
          (status = "waiting" /\ status' = "active" /\ turnOrder = <<>>)]_vars

\* An active game of three in which turns were played and a player left:
\* turnOrder still lists all three.
C31_Witness ==
    /\ activeGames /\ status = "active" /\ turnCount > 0
    /\ Len(turnOrder) = 3 /\ Len(players) = 2
    /\ Range(players) \subseteq Range(turnOrder)

\* C32: with the hooks of the base class, processAction by the turn holder
\* of an active game returns without error, leaves gameData as it was,
\* keeps the game active and moves currentTurn to the next entry of
\* turnOrder.
C32_BaseEngineOperable ==
    (activeGames /\ status = "active" /\ currentTurn \in Range(players)
       /\ currentTurn \in Range(turnOrder)) =>
        LET e == ProcessAction(Engine, currentTurn, BaseActionHooks(Engine))
            k == Len(turnOrder)
            i == IndexOf(turnOrder, currentTurn)
        IN /\ e.thrown = NoError
           /\ e.gameData = gameData
           /\ e.status = "active"
           /\ e.currentTurn = turnOrder[((i + 1) % k) + 1]

\* C33: under FairSpec every game that exists is eventually ended and
\* eventually gone from this.activeGames, whatever the callers do.
C33_EventuallyPurged ==
    /\ (activeGames /\ status # "ended") ~> (activeGames /\ status = "ended")
    /\ activeGames ~> (created /\ ~activeGames)

\* A game nobody ever joined, ended by its lifetime timer.
C33_Witness ==
    /\ activeGames /\ status = "ended" /\ endReason = "timeout"
    /\ players = <<>> /\ turnOrder = <<>> /\ endCount = 1 /\ purgeTimers = 1

\* C34: createGame registers a game that getGame returns, waiting, with no
\* players, a null currentTurn, an empty turnOrder and the supplied
\* configuration; the create route, which then adds the creator, leaves a
\* waiting game whose only participant is the creator.
C34_CreateGame ==
    ~created =>
        \A cfg \in Configs :
            LET g == CreateGame(Engine, cfg)
            IN /\ g.thrown = NoError
               /\ g.activeGames /\ GetGame(g) = <<g>>
               /\ g.status = "waiting" /\ g.players = <<>>
               /\ g.currentTurn = NoPlayer /\ g.turnOrder = <<>>
               /\ g.config = cfg
               /\ \A p \in PlayerIds :
                     LET r == CreateRoute(Engine, cfg, p)
                     IN /\ r.thrown = NoError
                        /\ r.players = <<p>> /\ r.status = "waiting"
                        /\ r.config = cfg /\ GetGame(r) = <<r>>

\* The game as the create route leaves it: waiting, the creator its only
\* participant, nothing else touched.
C34_Witness ==
    /\ activeGames /\ status = "waiting" /\ Len(players) = 1 /\ ready = {}
    /\ currentTurn = NoPlayer /\ turnOrder = <<>> /\ gameTimers /\ endCount = 0
    /\ config \in Configs /\ maxPlayers = config.maxPlayers
    /\ \E p \in PlayerIds : Engine = CreateRoute(Deleted, config, p)

\* C35: checkGameStart makes the game active when it is waiting, all its
\* participants are ready and they are at least config.minPlayers; in every
\* other case it returns without an error and leaves the game as it was.
C35_CheckGameStart ==
    activeGames =>
        \A h \in StartHooks(Len(players)) :
            LET e == CheckGameStart(Engine, h)
            IN IF status = "waiting" /\ ready = Range(players)
                  /\ Len(players) >= config.minPlayers
               THEN e.status = "active"
               ELSE e.thrown = NoError /\ Same(e)

\* C36: addPlayer never changes the status of a game, whoever joins and
\* whoever is ready.
C36_AddKeepsStatus ==
    activeGames =>
        \A p \in PlayerIds :
        \A h \in IF status = "waiting" THEN StartHooks(Len(players) + 1)
                  ELSE {BaseStartHooks} :
            AddPlayer(Engine, p, h).status = status

\* A waiting game whose only participant is ready: a second player joins,
\* the auto-start check runs (two of minPlayers two) and the game still
\* waits.
C36_Witness ==
    /\ activeGames /\ status = "waiting" /\ Len(players) = 1
    /\ ready = Range(players) /\ config.minPlayers = 2
    /\ \E p \in PlayerIds \ Range(players) :
          LET e == AddPlayer(Engine, p, BaseStartHooks)
          IN e.thrown = NoError /\ Len(e.players) = 2 /\ e.status = "waiting"

\* C37: an active game has at least config.minPlayers participants.
C37_ActiveHasMinPlayers ==
    (activeGames /\ status = "active") => Len(players) >= config.minPlayers

\* C38: processAction in the name of a player who is not in players changes
\* nothing of the game.
C38_OnlyParticipantsAct ==
    (activeGames /\ status = "active") =>
        \A p \in PlayerIds \ Range(players) : \A h \in ActionHooks(p) :
            LET e == ProcessAction(Engine, p, h)
            IN e.thrown # NoError /\ Same(e)

\* C39: whenever startGame, processAction, removePlayer or addPlayer raises
\* an error, the game is as it was before the call.
C39_ErrorsAtomic ==
    activeGames =>
        /\ \A h \in StartHooks(Len(players)) :
              LET e == StartGame(Engine, h)
              IN e.thrown # NoError => Same(e)
        /\ \A p \in PlayerIds :
              /\ \A h \in ActionHooks(p) :
                    LET e == ProcessAction(Engine, p, h)
                    IN e.thrown # NoError => Same(e)
              /\ LET e == RemovePlayer(Engine, p)
                 IN e.thrown # NoError => Same(e)
              /\ LET e == AddPlayer(Engine, p, BaseStartHooks)
                 IN e.thrown # NoError => Same(e)

\* C40: a game of the routes' engine is a game of the socket handler's
\* engine: getGame finds it there, and an action of the turn holder sent
\* over the socket has the effect it has on the routes' engine.
C40_SharedSessions ==
    activeGames =>
        /\ GetGame(SocketEngine) # <<>>
        /\ \A h \in ActionHooks(currentTurn) :
              ProcessAction(SocketEngine, currentTurn, h)
                  = ProcessAction(Engine, currentTurn, h)

====
